---------------------------- MODULE Spec2Model ----------------------------
(***************************************************************************)
(* The ambient audio engine of The Pattern Break (wind + chimes variant):  *)
(* the useAmbientAudio hook, its scene blend resolver, its synthesis graph *)
(* lifecycle and its chime scheduler.                                      *)
(*                                                                         *)
(* Numbers.  The code computes in floating point.  The lifecycle and the   *)
(* resolver are modelled in exact rationals held as integers over fixed    *)
(* denominators; the interpolators are also modelled in doubles (binary64  *)
(* section), where the last digit decides.  The rational units:            *)
(*   progress            in units of 1/ProgScale   (0.18  is 18000)        *)
(*   blend               in units of 1/BlendScale  (0.5   is 1000)         *)
(*   master level        in units of 1/LevelScale  (0.05  is 600)          *)
(*   timer delays        in milliseconds                                   *)
(*   Math.random()       in units of 1/RandScale, values 0..RandScale-1    *)
(* The scene tables keep one unit per field (see WIND_CONFIGS).            *)
(***************************************************************************)
EXTENDS Integers, Sequences, FiniteSets, TLC

ProgScale == 100000
BlendScale == 2000
LevelScale == 12000

\* Granularity of the sampled Math.random(): r / RandScale, r in 0..RandScale-1.
RandScale == 3
\* At most MaxGraphs audio contexts are constructed in one run.
MaxGraphs == 2
\* At most MaxStrikes chime strikes are invoked in one run.
MaxStrikes == 3
\* The resolver is exercised on every progress in -NegRange..MaxProgress.
NegRange == 2000
MaxProgress == 150000
\* The transitions are exercised with Margin progress steps on either side.
Margin == 50
\* The interpolators are called with t = k / LerpSteps, k in 0..LerpSteps,
\* written with three decimals.
LerpSteps == 5
\* The drone interpolator is called with t = k / DroneSteps, k in 0..DroneSteps,
\* on configs whose harmonic and gain lists are cut by up to CutMax entries.
DroneSteps == 4
CutMax == 2

Min(x, y) == IF x <= y THEN x ELSE y
Least(S) == CHOOSE x \in S : \A y \in S : x <= y
\* seq[i] of a 0-based JavaScript array
At(seq, i) == seq[i + 1]

\* IEEE NaN: a value outside the numeric range; every comparison with it is false.
NaN == 0 - (2 ^ 30)
Lt(x, y) == x # NaN /\ y # NaN /\ x < y
Le(x, y) == x # NaN /\ y # NaN /\ x <= y
Gt(x, y) == x # NaN /\ y # NaN /\ x > y
Ge(x, y) == x # NaN /\ y # NaN /\ x >= y

(***************************************************************************)
(* Scene parameter tables.                                                 *)
(* WIND_CONFIGS units: frequencies in Hz, whistleQ and gustShape plain,    *)
(* bandQ in 1/10, the three gains in 1/1000, gustRate, gustDepth and       *)
(* reverbWet in 1/100.                                                     *)
(***************************************************************************)
WIND_CONFIGS == <<
  [bandFreq |-> 350, bandQ |-> 18, bandGain |-> 50,
   whistleFreq |-> 800, whistleQ |-> 12, whistleGain |-> 12,
   rumbleFreq |-> 80, rumbleGain |-> 25,
   gustRate |-> 15, gustDepth |-> 15, gustShape |-> 60, reverbWet |-> 20],
  [bandFreq |-> 1200, bandQ |-> 5, bandGain |-> 60,
   whistleFreq |-> 3200, whistleQ |-> 8, whistleGain |-> 15,
   rumbleFreq |-> 120, rumbleGain |-> 30,
   gustRate |-> 35, gustDepth |-> 25, gustShape |-> 200, reverbWet |-> 45],
  [bandFreq |-> 600, bandQ |-> 12, bandGain |-> 40,
   whistleFreq |-> 1800, whistleQ |-> 15, whistleGain |-> 10,
   rumbleFreq |-> 90, rumbleGain |-> 18,
   gustRate |-> 22, gustDepth |-> 12, gustShape |-> 80, reverbWet |-> 30],
  [bandFreq |-> 450, bandQ |-> 10, bandGain |-> 55,
   whistleFreq |-> 2400, whistleQ |-> 18, whistleGain |-> 14,
   rumbleFreq |-> 60, rumbleGain |-> 35,
   gustRate |-> 18, gustDepth |-> 14, gustShape |-> 50, reverbWet |-> 25],
  [bandFreq |-> 2000, bandQ |-> 8, bandGain |-> 35,
   whistleFreq |-> 4500, whistleQ |-> 20, whistleGain |-> 8,
   rumbleFreq |-> 100, rumbleGain |-> 8,
   gustRate |-> 8, gustDepth |-> 20, gustShape |-> 300, reverbWet |-> 55] >>

\* CHIME_CONFIGS units: pitches in 1/10 Hz, gain in 1/1000, decay in 1/10 s,
\* intervalMin and intervalMax in ms.
CHIME_CONFIGS == <<
  [pitches |-> <<2200, 2616, 2937, 3492, 3920>>, gain |-> 12, decay |-> 25,
   intervalMin |-> 4000, intervalMax |-> 8000, clusterMax |-> 1],
  [pitches |-> <<5233, 6593, 7840, 8800, 10470>>, gain |-> 18, decay |-> 18,
   intervalMin |-> 1500, intervalMax |-> 4000, clusterMax |-> 3],
  [pitches |-> <<3920, 4400, 5233, 5873, 6593>>, gain |-> 15, decay |-> 22,
   intervalMin |-> 2500, intervalMax |-> 5000, clusterMax |-> 2],
  [pitches |-> <<1960, 2200, 2616, 2937, 3300>>, gain |-> 14, decay |-> 30,
   intervalMin |-> 3000, intervalMax |-> 6000, clusterMax |-> 2],
  [pitches |-> <<7840, 8800, 10470, 11750, 13190>>, gain |-> 10, decay |-> 35,
   intervalMin |-> 2000, intervalMax |-> 5000, clusterMax |-> 2] >>

SceneIndex == 0 .. 4

(***************************************************************************)
(* Scene blend resolver.                                                   *)
(***************************************************************************)
PreRollEnd == 3000
TailStart == 86000
TailSpan == 12000

scenes == <<
  [start |-> 3000, end |-> 18000],
  [start |-> 20000, end |-> 35000],
  [start |-> 37000, end |-> 52000],
  [start |-> 54000, end |-> 69000],
  [start |-> 71000, end |-> 86000] >>

transitions == <<
  [start |-> 18000, end |-> 20000, from |-> 0, to |-> 1],
  [start |-> 35000, end |-> 37000, from |-> 1, to |-> 2],
  [start |-> 52000, end |-> 54000, from |-> 2, to |-> 3],
  [start |-> 69000, end |-> 71000, from |-> 3, to |-> 4] >>

\* The resolver with the scene windows scanned before the transition windows.
getSceneBlend_scenesFirst(progress) ==
  IF Lt(progress, PreRollEnd)
  THEN [sceneA |-> 0, sceneB |-> 0, blend |-> 0,
        masterGain |-> Min(LevelScale, (progress * LevelScale) \div PreRollEnd) \div 2]
  ELSE LET inT == {k \in 0 .. 3 :
                     Ge(progress, At(transitions, k).start) /\ Le(progress, At(transitions, k).end)}
           inS == {i \in SceneIndex :
                     Ge(progress, At(scenes, i).start) /\ Le(progress, At(scenes, i).end)}
       IN IF inS # {}
          THEN [sceneA |-> Least(inS), sceneB |-> Least(inS), blend |-> 0,
                masterGain |-> LevelScale]
          ELSE IF inT # {}
          THEN LET t == At(transitions, Least(inT))
               IN [sceneA |-> t.from, sceneB |-> t.to,
                   blend |-> ((progress - t.start) * BlendScale) \div (t.end - t.start),
                   masterGain |-> LevelScale]
          ELSE IF Gt(progress, TailStart)
          THEN [sceneA |-> 4, sceneB |-> 4, blend |-> 0,
                masterGain |-> LevelScale
                               - Min(LevelScale, ((progress - TailStart) * LevelScale) \div TailSpan)]
          ELSE [sceneA |-> 0, sceneB |-> 0, blend |-> 0, masterGain |-> 0]

\* The resolver with the pre-roll at full strength (no * 0.5).
getSceneBlend_fullPreRoll(progress) ==
  IF Lt(progress, PreRollEnd)
  THEN [sceneA |-> 0, sceneB |-> 0, blend |-> 0,
        masterGain |-> Min(LevelScale, (progress * LevelScale) \div PreRollEnd)]
  ELSE LET inT == {k \in 0 .. 3 :
                     Ge(progress, At(transitions, k).start) /\ Le(progress, At(transitions, k).end)}
           inS == {i \in SceneIndex :
                     Ge(progress, At(scenes, i).start) /\ Le(progress, At(scenes, i).end)}
       IN IF inT # {}
          THEN LET t == At(transitions, Least(inT))
               IN [sceneA |-> t.from, sceneB |-> t.to,
                   blend |-> ((progress - t.start) * BlendScale) \div (t.end - t.start),
                   masterGain |-> LevelScale]
          ELSE IF inS # {}
          THEN [sceneA |-> Least(inS), sceneB |-> Least(inS), blend |-> 0,
                masterGain |-> LevelScale]
          ELSE IF Gt(progress, TailStart)
          THEN [sceneA |-> 4, sceneB |-> 4, blend |-> 0,
                masterGain |-> LevelScale
                               - Min(LevelScale, ((progress - TailStart) * LevelScale) \div TailSpan)]
          ELSE [sceneA |-> 0, sceneB |-> 0, blend |-> 0, masterGain |-> 0]

\* The resolver with the tail fade not clamped (no Math.min).
getSceneBlend_unclampedTail(progress) ==
  IF Lt(progress, PreRollEnd)
  THEN [sceneA |-> 0, sceneB |-> 0, blend |-> 0,
        masterGain |-> Min(LevelScale, (progress * LevelScale) \div PreRollEnd) \div 2]
  ELSE LET inT == {k \in 0 .. 3 :
                     Ge(progress, At(transitions, k).start) /\ Le(progress, At(transitions, k).end)}
           inS == {i \in SceneIndex :
                     Ge(progress, At(scenes, i).start) /\ Le(progress, At(scenes, i).end)}
       IN IF inT # {}
          THEN LET t == At(transitions, Least(inT))
               IN [sceneA |-> t.from, sceneB |-> t.to,
                   blend |-> ((progress - t.start) * BlendScale) \div (t.end - t.start),
                   masterGain |-> LevelScale]
          ELSE IF inS # {}
          THEN [sceneA |-> Least(inS), sceneB |-> Least(inS), blend |-> 0,
                masterGain |-> LevelScale]
          ELSE IF Gt(progress, TailStart)
          THEN [sceneA |-> 4, sceneB |-> 4, blend |-> 0,
                masterGain |-> LevelScale
                               - ((progress - TailStart) * LevelScale) \div TailSpan]
          ELSE [sceneA |-> 0, sceneB |-> 0, blend |-> 0, masterGain |-> 0]

\* The resolver with a stable window's start taken as exclusive.
getSceneBlend_exclusiveStart(progress) ==
  IF Lt(progress, PreRollEnd)
  THEN [sceneA |-> 0, sceneB |-> 0, blend |-> 0,
        masterGain |-> Min(LevelScale, (progress * LevelScale) \div PreRollEnd) \div 2]
  ELSE LET inT == {k \in 0 .. 3 :
                     Ge(progress, At(transitions, k).start) /\ Le(progress, At(transitions, k).end)}
           inS == {i \in SceneIndex :
                     Gt(progress, At(scenes, i).start) /\ Le(progress, At(scenes, i).end)}
       IN IF inT # {}
          THEN LET t == At(transitions, Least(inT))
               IN [sceneA |-> t.from, sceneB |-> t.to,
                   blend |-> ((progress - t.start) * BlendScale) \div (t.end - t.start),
                   masterGain |-> LevelScale]
          ELSE IF inS # {}
          THEN [sceneA |-> Least(inS), sceneB |-> Least(inS), blend |-> 0,
                masterGain |-> LevelScale]
          ELSE IF Gt(progress, TailStart)
          THEN [sceneA |-> 4, sceneB |-> 4, blend |-> 0,
                masterGain |-> LevelScale
                               - Min(LevelScale, ((progress - TailStart) * LevelScale) \div TailSpan)]
          ELSE [sceneA |-> 0, sceneB |-> 0, blend |-> 0, masterGain |-> 0]

getSceneBlend(progress) ==
  IF Lt(progress, PreRollEnd)
  THEN [sceneA |-> 0, sceneB |-> 0, blend |-> 0,
        masterGain |-> Min(LevelScale, (progress * LevelScale) \div PreRollEnd) \div 2]
  ELSE LET inT == {k \in 0 .. 3 :
                     Ge(progress, At(transitions, k).start) /\ Le(progress, At(transitions, k).end)}
           inS == {i \in SceneIndex :
                     Ge(progress, At(scenes, i).start) /\ Le(progress, At(scenes, i).end)}
       IN IF inT # {}
          THEN LET t == At(transitions, Least(inT))
               IN [sceneA |-> t.from, sceneB |-> t.to,
                   blend |-> ((progress - t.start) * BlendScale) \div (t.end - t.start),
                   masterGain |-> LevelScale]
          ELSE IF inS # {}
          THEN [sceneA |-> Least(inS), sceneB |-> Least(inS), blend |-> 0,
                masterGain |-> LevelScale]
          ELSE IF Gt(progress, TailStart)
          THEN [sceneA |-> 4, sceneB |-> 4, blend |-> 0,
                masterGain |-> LevelScale
                               - Min(LevelScale, ((progress - TailStart) * LevelScale) \div TailSpan)]
          ELSE [sceneA |-> 0, sceneB |-> 0, blend |-> 0, masterGain |-> 0]

(***************************************************************************)
(* Parameter interpolator.  The result is in units of 1/BlendScale of the  *)
(* field's unit: lerp(x, y) = x + (y - x) * t with t in 1/BlendScale.      *)
(***************************************************************************)
lerp(x, y, t) == x * BlendScale + (y - x) * t

lerpWindConfig(a, b, t) ==
  [bandFreq |-> lerp(a.bandFreq, b.bandFreq, t),
   bandQ |-> lerp(a.bandQ, b.bandQ, t),
   bandGain |-> lerp(a.bandGain, b.bandGain, t),
   whistleFreq |-> lerp(a.whistleFreq, b.whistleFreq, t),
   whistleQ |-> lerp(a.whistleQ, b.whistleQ, t),
   whistleGain |-> lerp(a.whistleGain, b.whistleGain, t),
   rumbleFreq |-> lerp(a.rumbleFreq, b.rumbleFreq, t),
   rumbleGain |-> lerp(a.rumbleGain, b.rumbleGain, t),
   gustRate |-> lerp(a.gustRate, b.gustRate, t),
   gustDepth |-> lerp(a.gustDepth, b.gustDepth, t),
   gustShape |-> lerp(a.gustShape, b.gustShape, t),
   reverbWet |-> lerp(a.reverbWet, b.reverbWet, t)]

\* A table entry used as it is, brought to the interpolator's unit.
Exact(c) == [f \in DOMAIN c |-> c[f] * BlendScale]

(***************************************************************************)
(* JavaScript number arithmetic (IEEE 754 binary64, round to nearest, ties *)
(* to even), for the interpolator's endpoints, where the digits matter.    *)
(* A natural number is a sequence of limbs in base Base, lowest first,     *)
(* with no zero limb on top (zero is the empty sequence).  A double is     *)
(* [neg, m, e], standing for (-1)^neg * m * 2^e with m odd and below 2^53, *)
(* or Zero64.  Exponent limits are left out (no value here is near them)   *)
(* and the two zeros are one value, as they are for ===.                   *)
(***************************************************************************)
LimbBits == 14
Base == 16384
Precision == 53

Max(x, y) == IF x >= y THEN x ELSE y

RECURSIVE NatTrim(_)
NatTrim(a) ==
  IF a = << >> THEN << >>
  ELSE IF a[Len(a)] = 0 THEN NatTrim(SubSeq(a, 1, Len(a) - 1)) ELSE a

RECURSIVE NatFromInt(_)
NatFromInt(n) == IF n = 0 THEN << >> ELSE <<n % Base>> \o NatFromInt(n \div Base)

NatLimb(a, i) == IF i <= Len(a) THEN a[i] ELSE 0

RECURSIVE NatAddFrom(_, _, _, _)
NatAddFrom(a, b, i, carry) ==
  IF i > Max(Len(a), Len(b))
  THEN IF carry = 0 THEN << >> ELSE <<carry>>
  ELSE LET sum == NatLimb(a, i) + NatLimb(b, i) + carry
       IN <<sum % Base>> \o NatAddFrom(a, b, i + 1, sum \div Base)

NatAdd(a, b) == NatAddFrom(a, b, 1, 0)

\* a - b for a >= b
RECURSIVE NatSubFrom(_, _, _, _)
NatSubFrom(a, b, i, borrow) ==
  IF i > Len(a) THEN << >>
  ELSE LET d == NatLimb(a, i) - NatLimb(b, i) - borrow
       IN <<IF d < 0 THEN d + Base ELSE d>> \o NatSubFrom(a, b, i + 1, IF d < 0 THEN 1 ELSE 0)

NatSub(a, b) == NatTrim(NatSubFrom(a, b, 1, 0))

\* -1, 0 or 1 as a is below, equal to or above b
RECURSIVE NatCmpFrom(_, _, _)
NatCmpFrom(a, b, i) ==
  IF i = 0 THEN 0
  ELSE IF a[i] > b[i] THEN 1
  ELSE IF a[i] < b[i] THEN 0 - 1
  ELSE NatCmpFrom(a, b, i - 1)

NatCmp(a, b) ==
  IF Len(a) > Len(b) THEN 1
  ELSE IF Len(a) < Len(b) THEN 0 - 1
  ELSE NatCmpFrom(a, b, Len(a))

\* a * k for a small k (k <= Base)
RECURSIVE NatMulSmallFrom(_, _, _, _)
NatMulSmallFrom(a, k, i, carry) ==
  IF i > Len(a)
  THEN IF carry = 0 THEN << >> ELSE <<carry>>
  ELSE LET p == a[i] * k + carry
       IN <<p % Base>> \o NatMulSmallFrom(a, k, i + 1, p \div Base)

NatMulSmall(a, k) == NatTrim(NatMulSmallFrom(a, k, 1, 0))

\* a * Base^q
NatShiftLimbs(a, q) == IF a = << >> THEN << >> ELSE [i \in 1 .. q |-> 0] \o a

RECURSIVE NatMulFrom(_, _, _)
NatMulFrom(a, b, j) ==
  IF j > Len(b) THEN << >>
  ELSE NatAdd(NatMulSmall(a, b[j]), NatShiftLimbs(NatMulFrom(a, b, j + 1), 1))

NatMul(a, b) == NatMulFrom(a, b, 1)

\* quotient and remainder of the limbs 1..i of a, with rem carried in from
\* above, by a small k (k <= Base)
RECURSIVE NatDivSmallFrom(_, _, _, _)
NatDivSmallFrom(a, k, i, rem) ==
  IF i = 0 THEN [q |-> << >>, r |-> rem]
  ELSE LET cur == rem * Base + a[i]
           rest == NatDivSmallFrom(a, k, i - 1, cur % k)
       IN [q |-> rest.q \o <<cur \div k>>, r |-> rest.r]

NatDivSmall(a, k) ==
  LET d == NatDivSmallFrom(a, k, Len(a), 0) IN [q |-> NatTrim(d.q), r |-> d.r]

\* a * 2^k and floor(a / 2^k)
NatShl(a, k) == NatShiftLimbs(NatMulSmall(a, 2 ^ (k % LimbBits)), k \div LimbBits)
NatShr(a, k) ==
  IF k \div LimbBits >= Len(a) THEN << >>
  ELSE NatDivSmall(SubSeq(a, (k \div LimbBits) + 1, Len(a)), 2 ^ (k % LimbBits)).q

RECURSIVE IntBitLen(_)
IntBitLen(n) == IF n = 0 THEN 0 ELSE 1 + IntBitLen(n \div 2)

NatBitLen(a) == IF a = << >> THEN 0 ELSE LimbBits * (Len(a) - 1) + IntBitLen(a[Len(a)])
NatIsOdd(a) == a # << >> /\ a[1] % 2 = 1

Zero64 == [neg |-> FALSE, m |-> << >>, e |-> 0]

\* (-1)^neg * m * 2^e with the factors of two of m moved into the exponent
RECURSIVE Canon64(_, _, _)
Canon64(neg, m, e) ==
  IF m = << >> THEN Zero64
  ELSE IF m[1] = 0 THEN Canon64(neg, Tail(m), e + LimbBits)
  ELSE IF m[1] % 2 = 0 THEN Canon64(neg, NatShr(m, 1), e + 1)
  ELSE [neg |-> neg, m |-> m, e |-> e]

\* The double nearest to (-1)^neg * (m + f) * 2^e, where 0 < f < 1 if sticky
\* and f = 0 if not: m is cut to Precision bits, ties going to the even neighbour.
Round64(neg, m, e, sticky) ==
  LET drop == NatBitLen(m) - Precision
  IN IF drop <= 0 THEN Canon64(neg, m, e)
     ELSE LET q == NatShr(m, drop)
              rem == NatSub(m, NatShl(q, drop))
              half == NatShl(<<1>>, drop - 1)
              c == NatCmp(rem, half)
              up == c = 1 \/ (c = 0 /\ (sticky \/ NatIsOdd(q)))
          IN Canon64(neg, IF up THEN NatAdd(q, <<1>>) ELSE q, e + drop)

\* The double a decimal literal denotes: v / scale for an integer v and a
\* power of ten scale (0.35 is Number(35, 100)).
Number(v, scale) ==
  IF v = 0 THEN Zero64
  ELSE LET mag == IF v < 0 THEN 0 - v ELSE v
           d == NatDivSmall(NatShl(NatFromInt(mag), 5 * LimbBits), scale)
       IN Round64(v < 0, d.q, 0 - 5 * LimbBits, d.r # 0)

Neg64(x) == IF x = Zero64 THEN Zero64 ELSE [x EXCEPT !.neg = ~@]

\* x + y
Add64(x, y) ==
  IF x = Zero64 THEN y
  ELSE IF y = Zero64 THEN x
  ELSE LET e0 == Min(x.e, y.e)
           mx == NatShl(x.m, x.e - e0)
           my == NatShl(y.m, y.e - e0)
           c == NatCmp(mx, my)
       IN IF x.neg = y.neg THEN Round64(x.neg, NatAdd(mx, my), e0, FALSE)
          ELSE IF c = 0 THEN Zero64
          ELSE IF c = 1 THEN Round64(x.neg, NatSub(mx, my), e0, FALSE)
          ELSE Round64(y.neg, NatSub(my, mx), e0, FALSE)

\* x - y
Sub64(x, y) == Add64(x, Neg64(y))

\* x * y
Mul64(x, y) ==
  IF x = Zero64 \/ y = Zero64 THEN Zero64
  ELSE Round64(x.neg # y.neg, NatMul(x.m, y.m), x.e + y.e, FALSE)

\* x < y
Lt64(x, y) ==
  LET d == Sub64(x, y) IN d # Zero64 /\ d.neg

(***************************************************************************)
(* The interpolators of the three variants, in doubles.                    *)
(***************************************************************************)
\* The power of ten under each field of the wind tables (see WIND_CONFIGS).
WindScale ==
  [bandFreq |-> 1, bandQ |-> 10, bandGain |-> 1000,
   whistleFreq |-> 1, whistleQ |-> 1, whistleGain |-> 1000,
   rumbleFreq |-> 1, rumbleGain |-> 1000,
   gustRate |-> 100, gustDepth |-> 100, gustShape |-> 1, reverbWet |-> 100]

\* A wind table entry as the doubles its literals denote.
WindDoubles(c) == [f \in DOMAIN c |-> Number(c[f], WindScale[f])]

\* WIND_CONFIGS of the wind-only variant, in the units of WIND_CONFIGS.
WIND_ONLY_CONFIGS == <<
  [bandFreq |-> 350, bandQ |-> 18, bandGain |-> 120,
   whistleFreq |-> 800, whistleQ |-> 12, whistleGain |-> 30,
   rumbleFreq |-> 80, rumbleGain |-> 60,
   gustRate |-> 15, gustDepth |-> 40, gustShape |-> 60, reverbWet |-> 20],
  [bandFreq |-> 1200, bandQ |-> 5, bandGain |-> 140,
   whistleFreq |-> 3200, whistleQ |-> 8, whistleGain |-> 40,
   rumbleFreq |-> 120, rumbleGain |-> 80,
   gustRate |-> 35, gustDepth |-> 60, gustShape |-> 200, reverbWet |-> 45],
  [bandFreq |-> 600, bandQ |-> 12, bandGain |-> 100,
   whistleFreq |-> 1800, whistleQ |-> 15, whistleGain |-> 25,
   rumbleFreq |-> 90, rumbleGain |-> 40,
   gustRate |-> 22, gustDepth |-> 30, gustShape |-> 80, reverbWet |-> 30],
  [bandFreq |-> 450, bandQ |-> 10, bandGain |-> 130,
   whistleFreq |-> 2400, whistleQ |-> 18, whistleGain |-> 35,
   rumbleFreq |-> 60, rumbleGain |-> 90,
   gustRate |-> 18, gustDepth |-> 35, gustShape |-> 50, reverbWet |-> 25],
  [bandFreq |-> 2000, bandQ |-> 8, bandGain |-> 80,
   whistleFreq |-> 4500, whistleQ |-> 20, whistleGain |-> 20,
   rumbleFreq |-> 100, rumbleGain |-> 20,
   gustRate |-> 8, gustDepth |-> 50, gustShape |-> 300, reverbWet |-> 55] >>

\* SCENE_CONFIGS of the drone variant: baseFreq, lfoRate, gain and
\* harmonicGains in 1/100, harmonics and filterQ in 1/10, noiseLevel in
\* 1/1000, filterFreq, lfoDepth and detune plain.
SCENE_CONFIGS == <<
  [baseFreq |-> 4899, harmonics |-> <<10, 20, 30, 40, 70>>,
   harmonicGains |-> <<100, 50, 25, 15, 8>>, waveform |-> "sine",
   filterFreq |-> 280, filterQ |-> 35, lfoRate |-> 12, lfoDepth |-> 6,
   gain |-> 10, detune |-> 0 - 3, noiseLevel |-> 10, filterType |-> "lowpass"],
  [baseFreq |-> 19600, harmonics |-> <<10, 15, 20, 30, 50>>,
   harmonicGains |-> <<70, 40, 50, 30, 15>>, waveform |-> "sine",
   filterFreq |-> 2400, filterQ |-> 6, lfoRate |-> 25, lfoDepth |-> 12,
   gain |-> 8, detune |-> 7, noiseLevel |-> 18, filterType |-> "bandpass"],
  [baseFreq |-> 7342, harmonics |-> <<10, 20, 30, 40, 60>>,
   harmonicGains |-> <<90, 60, 40, 30, 15>>, waveform |-> "triangle",
   filterFreq |-> 550, filterQ |-> 20, lfoRate |-> 80, lfoDepth |-> 10,
   gain |-> 9, detune |-> 0, noiseLevel |-> 8, filterType |-> "lowpass"],
  [baseFreq |-> 11000, harmonics |-> <<10, 20, 25, 30, 40>>,
   harmonicGains |-> <<100, 50, 30, 20, 10>>, waveform |-> "sine",
   filterFreq |-> 700, filterQ |-> 18, lfoRate |-> 40, lfoDepth |-> 8,
   gain |-> 11, detune |-> 0 - 2, noiseLevel |-> 6, filterType |-> "lowpass"],
  [baseFreq |-> 14683, harmonics |-> <<10, 15, 20, 30, 40>>,
   harmonicGains |-> <<60, 50, 40, 25, 15>>, waveform |-> "sine",
   filterFreq |-> 1800, filterQ |-> 5, lfoRate |-> 6, lfoDepth |-> 4,
   gain |-> 10, detune |-> 3, noiseLevel |-> 5, filterType |-> "lowpass"] >>

\* A drone table entry as the doubles its literals denote.
SceneDoubles(c) ==
  [baseFreq |-> Number(c.baseFreq, 100),
   harmonics |-> [i \in DOMAIN c.harmonics |-> Number(c.harmonics[i], 10)],
   harmonicGains |-> [i \in DOMAIN c.harmonicGains |-> Number(c.harmonicGains[i], 100)],
   waveform |-> c.waveform,
   filterFreq |-> Number(c.filterFreq, 1),
   filterQ |-> Number(c.filterQ, 10),
   lfoRate |-> Number(c.lfoRate, 100),
   lfoDepth |-> Number(c.lfoDepth, 1),
   gain |-> Number(c.gain, 100),
   detune |-> Number(c.detune, 1),
   noiseLevel |-> Number(c.noiseLevel, 1000),
   filterType |-> c.filterType]

\* The interpolation written as a weighted sum, x * (1 - t) + y * t.
lerp64_weightedSum(x, y, t) ==
  Add64(Mul64(x, Sub64(Number(1, 1), t)), Mul64(y, t))

\* const lerp = (x, y) => x + (y - x) * t, of all three variants
lerp64(x, y, t) == Add64(x, Mul64(Sub64(y, x), t))

\* lerpWindConfig of the wind and chimes variant, on doubles
lerpWindConfig64(a, b, t) ==
  [bandFreq |-> lerp64(a.bandFreq, b.bandFreq, t),
   bandQ |-> lerp64(a.bandQ, b.bandQ, t),
   bandGain |-> lerp64(a.bandGain, b.bandGain, t),
   whistleFreq |-> lerp64(a.whistleFreq, b.whistleFreq, t),
   whistleQ |-> lerp64(a.whistleQ, b.whistleQ, t),
   whistleGain |-> lerp64(a.whistleGain, b.whistleGain, t),
   rumbleFreq |-> lerp64(a.rumbleFreq, b.rumbleFreq, t),
   rumbleGain |-> lerp64(a.rumbleGain, b.rumbleGain, t),
   gustRate |-> lerp64(a.gustRate, b.gustRate, t),
   gustDepth |-> lerp64(a.gustDepth, b.gustDepth, t),
   gustShape |-> lerp64(a.gustShape, b.gustShape, t),
   reverbWet |-> lerp64(a.reverbWet, b.reverbWet, t)]

\* lerpConfig of the wind-only variant
lerpConfig_wind(a, b, t) ==
  [bandFreq |-> lerp64(a.bandFreq, b.bandFreq, t),
   bandQ |-> lerp64(a.bandQ, b.bandQ, t),
   bandGain |-> lerp64(a.bandGain, b.bandGain, t),
   whistleFreq |-> lerp64(a.whistleFreq, b.whistleFreq, t),
   whistleQ |-> lerp64(a.whistleQ, b.whistleQ, t),
   whistleGain |-> lerp64(a.whistleGain, b.whistleGain, t),
   rumbleFreq |-> lerp64(a.rumbleFreq, b.rumbleFreq, t),
   rumbleGain |-> lerp64(a.rumbleGain, b.rumbleGain, t),
   gustRate |-> lerp64(a.gustRate, b.gustRate, t),
   gustDepth |-> lerp64(a.gustDepth, b.gustDepth, t),
   gustShape |-> lerp64(a.gustShape, b.gustShape, t),
   reverbWet |-> lerp64(a.reverbWet, b.reverbWet, t)]

\* lerpConfig of the drone variant
lerpConfig_drone(a, b, t) ==
  [baseFreq |-> lerp64(a.baseFreq, b.baseFreq, t),
   harmonics |-> IF Len(a.harmonics) >= Len(b.harmonics) THEN a.harmonics ELSE b.harmonics,
   harmonicGains |->
     [i \in DOMAIN a.harmonicGains |->
        lerp64(a.harmonicGains[i],
               IF i \in DOMAIN b.harmonicGains THEN b.harmonicGains[i] ELSE Zero64, t)],
   waveform |-> IF Lt64(t, Number(5, 10)) THEN a.waveform ELSE b.waveform,
   filterFreq |-> lerp64(a.filterFreq, b.filterFreq, t),
   filterQ |-> lerp64(a.filterQ, b.filterQ, t),
   lfoRate |-> lerp64(a.lfoRate, b.lfoRate, t),
   lfoDepth |-> lerp64(a.lfoDepth, b.lfoDepth, t),
   gain |-> lerp64(a.gain, b.gain, t),
   detune |-> lerp64(a.detune, b.detune, t),
   noiseLevel |-> lerp64(a.noiseLevel, b.noiseLevel, t),
   filterType |-> IF Lt64(t, Number(5, 10)) THEN a.filterType ELSE b.filterType]

(***************************************************************************)
(* Audio params.  A param holds its construction-time value and the        *)
(* automation events still pending on it.                                  *)
(***************************************************************************)
Pin == [op |-> "setValueAtTime"]
Ramp(target, dur) == [op |-> "linearRampToValueAtTime", target |-> target, dur |-> dur]

cancelScheduledValues(param) == [param EXCEPT !.events = << >>]
setValueAtTime(param) == [param EXCEPT !.events = Append(@, Pin)]
linearRampToValueAtTime(param, target, dur) ==
  [param EXCEPT !.events = Append(@, Ramp(target, dur))]

\* A parameter change that does not cancel what is pending.
RampTo_noCancel(param, target, dur) ==
  linearRampToValueAtTime(setValueAtTime(param), target, dur)

\* The three calls every parameter change is made of.
RampTo(param, target, dur) ==
  linearRampToValueAtTime(setValueAtTime(cancelScheduledValues(param)), target, dur)

\* Construction-time values, in the unit of the field that later targets the
\* param (frequencies of the two LFOs that are never retargeted in 1/100 Hz).
InitialValue ==
  [bandFilter_frequency |-> 350, bandFilter_Q |-> 18, bandGain_gain |-> 0,
   whistleFilter_frequency |-> 800, whistleFilter_Q |-> 12, whistleGain_gain |-> 0,
   rumbleFilter_frequency |-> 80, rumbleFilter_Q |-> 1, rumbleGain_gain |-> 0,
   gustLfo_frequency |-> 15, gustLfoGain_gain |-> 15,
   gustFilterLfo_frequency |-> 7, gustFilterLfoGain_gain |-> 60,
   gustLfo2_frequency |-> 4, gustLfo2Gain_gain |-> 100,
   reverbGain_gain |-> 30, dryGain_gain |-> 70,
   chimeReverbGain_gain |-> 50, chimeDryGain_gain |-> 50, chimeBus_gain |-> 1,
   masterGain_gain |-> 0]

ParamNames == DOMAIN InitialValue

\* The source nodes dispose() stops, in the order it stops them.
Sources == <<"noiseSource", "gustLfo", "gustFilterLfo", "gustLfo2">>
SourceSet == {Sources[i] : i \in DOMAIN Sources}

Null == [ctx |-> 0]

\* The nodes record new AudioContext() and the node constructors produce.
NewNodes(id) ==
  [ctx |-> id,
   params |-> [n \in ParamNames |-> [value |-> InitialValue[n], events |-> << >>]]]

(***************************************************************************)
(* State of one hook instance.                                             *)
(***************************************************************************)
VARIABLES
  progress,         \* the progress prop of the latest render
  isPlaying,        \* the isPlaying state (the value the next render sees)
  renderedPlaying,  \* isPlaying as captured by the latest render's callbacks
  nodesRef,         \* nodesRef.current: Null or the nodes record
  chimeTimerRef,    \* chimeTimerRef.current: 0 (null) or a timer id
  currentSceneRef,  \* currentSceneRef.current
  masterLevelRef,   \* masterLevelRef.current
  sceneBlend,       \* what the progress effect last destructured from getSceneBlend
  timers,           \* pending setTimeout(scheduleNextChime, delay): records [id, delay, by],
                    \* by naming the function that made the call
  strikeTimers,     \* pending staggered strike callbacks: their closures
  strikeCount,      \* number of strikeChime invocations so far
  lastStrike,       \* the latest strikeChime invocation: its arguments and its voice
  ctxCount,         \* number of AudioContexts constructed so far
  closedCtx,        \* ids of the contexts on which close() was called
  lastDispose,      \* what the latest cleanup did to the graph it found
  audioAvailable,   \* whether new AudioContext() succeeds in this environment
  warned,           \* console.warn("Web Audio unavailable") was called
  uncaught,         \* an exception escaped one of the hook's callbacks
  interp            \* the latest call of an interpolator on doubles: arguments and result

vars == <<progress, isPlaying, renderedPlaying, nodesRef, chimeTimerRef,
          currentSceneRef, masterLevelRef, sceneBlend, timers, strikeTimers,
          strikeCount, lastStrike, ctxCount, closedCtx, lastDispose,
          audioAvailable, warned, uncaught, interp>>

Rand == 0 .. RandScale - 1

\* Progress values the scroll collaborator supplies in the lifecycle model:
\* silence (0), an inaudible pre-roll level (0.002), scene I (0.10) and a
\* point of the I->II transition past its midpoint (0.195).
ProgressSet == {0, 200, 10000, 19500}

AudibleThreshold == 600
BackoffMs == 2000
BlendEpsilon == 2
HalfBlend == 1000
WindRampMs == 250
StartRampMs == 2000
StopRampMs == 1500
StartDelayMinMs == 1500
StartDelaySpanMs == 2000
\* osc.stop(now + decay + 0.1) and osc2.stop(now + decay * 0.6 + 0.1)
StopGuardMs == 100
OvertoneDecayPct == 60

NoStrike == [ctx |-> 0]
NoCall == [fn |-> "none"]
NoDispose == [ctx |-> 0]

\* setTimeout's return value: an id no pending timer has.
NewTimerId(active) ==
  Least({i \in 1 .. Cardinality(active) + 1 : \A t \in active : t.id # i})

\* clearTimeout(handle)
clearTimeout(active, handle) == {t \in active : t.id # handle}

(***************************************************************************)
(* The progress effect (deps [progress, isPlaying]).                       *)
(***************************************************************************)
\* Targets of the thirteen ramps, from the interpolated config and the level.
\* Level-scaled targets are in 1/(BlendScale * LevelScale) of the field's unit,
\* the others in 1/BlendScale.
WindTargets(config, masterLevel) ==
  [bandFilter_frequency |-> config.bandFreq,
   bandFilter_Q |-> config.bandQ,
   bandGain_gain |-> config.bandGain * masterLevel,
   whistleFilter_frequency |-> config.whistleFreq,
   whistleFilter_Q |-> config.whistleQ,
   whistleGain_gain |-> config.whistleGain * masterLevel,
   rumbleFilter_frequency |-> config.rumbleFreq,
   rumbleGain_gain |-> config.rumbleGain * masterLevel,
   gustLfo_frequency |-> config.gustRate,
   gustLfoGain_gain |-> config.gustDepth * masterLevel,
   gustFilterLfoGain_gain |-> config.gustShape,
   reverbGain_gain |-> config.reverbWet,
   dryGain_gain |-> 100 * BlendScale - config.reverbWet]

ApplyWind(nodes, sb) ==
  LET config == IF sb.blend > BlendEpsilon
                THEN lerpWindConfig(At(WIND_CONFIGS, sb.sceneA), At(WIND_CONFIGS, sb.sceneB), sb.blend)
                ELSE Exact(At(WIND_CONFIGS, sb.sceneA))
      targets == WindTargets(config, sb.masterGain)
  IN [nodes EXCEPT !.params =
        [n \in ParamNames |->
           IF n \in DOMAIN targets THEN RampTo(@[n], targets[n], WindRampMs) ELSE @[n]]]

\* The effect with the tie at blend 0.5 going to sceneB.
ProgressEffect_tieToB(p, playing) ==
  LET sb == getSceneBlend(p)
  IN /\ sceneBlend' = sb
     /\ currentSceneRef' = (IF sb.blend >= HalfBlend THEN sb.sceneB ELSE sb.sceneA)
     /\ masterLevelRef' = sb.masterGain
     /\ nodesRef' = IF nodesRef = Null \/ ~playing THEN nodesRef ELSE ApplyWind(nodesRef, sb)

\* The effect with the refs written only after the not-playing early return.
ProgressEffect_refsAfterReturn(p, playing) ==
  LET sb == getSceneBlend(p)
  IN /\ sceneBlend' = sb
     /\ IF nodesRef = Null \/ ~playing
        THEN UNCHANGED <<currentSceneRef, masterLevelRef, nodesRef>>
        ELSE /\ currentSceneRef' = (IF sb.blend > HalfBlend THEN sb.sceneB ELSE sb.sceneA)
             /\ masterLevelRef' = sb.masterGain
             /\ nodesRef' = ApplyWind(nodesRef, sb)

ProgressEffect(p, playing) ==
  LET sb == getSceneBlend(p)
  IN /\ sceneBlend' = sb
     /\ currentSceneRef' = (IF sb.blend > HalfBlend THEN sb.sceneB ELSE sb.sceneA)
     /\ masterLevelRef' = sb.masterGain
     /\ nodesRef' = IF nodesRef = Null \/ ~playing THEN nodesRef ELSE ApplyWind(nodesRef, sb)

\* The parent re-renders with a new progress prop; the render also sees the
\* latest isPlaying state, and the effect runs because progress changed.
OnProgress(p) ==
  /\ p # progress
  /\ progress' = p
  /\ renderedPlaying' = isPlaying
  /\ ProgressEffect(p, isPlaying)
  /\ UNCHANGED <<isPlaying, chimeTimerRef, timers, strikeTimers, strikeCount, lastStrike,
                 ctxCount, closedCtx, lastDispose, audioAvailable, interp, warned, uncaught>>

\* The re-render setIsPlaying asked for; the effect runs because isPlaying changed.
Rerender ==
  /\ renderedPlaying # isPlaying
  /\ renderedPlaying' = isPlaying
  /\ ProgressEffect(progress, isPlaying)
  /\ UNCHANGED <<progress, isPlaying, chimeTimerRef, timers, strikeTimers, strikeCount,
                 lastStrike, ctxCount, closedCtx, lastDispose, audioAvailable, interp, warned, uncaught>>

(***************************************************************************)
(* Graph construction.                                                     *)
(***************************************************************************)
\* initAudio with the constructor's exception not caught.
initAudio_noCatch ==
  IF nodesRef # Null
  THEN [nodes |-> nodesRef, ctxCount |-> ctxCount, warned |-> warned, thrown |-> FALSE]
  ELSE IF audioAvailable
  THEN [nodes |-> NewNodes(ctxCount + 1), ctxCount |-> ctxCount + 1, warned |-> warned,
        thrown |-> FALSE]
  ELSE [nodes |-> Null, ctxCount |-> ctxCount, warned |-> warned, thrown |-> TRUE]

\* What initAudio leaves in nodesRef, the context count and the warning log,
\* and whether it throws.  new AudioContext() throws where audio is unavailable;
\* the try/catch turns that into a console.warn.
initAudio ==
  IF nodesRef # Null
  THEN [nodes |-> nodesRef, ctxCount |-> ctxCount, warned |-> warned, thrown |-> FALSE]
  ELSE IF audioAvailable
  THEN [nodes |-> NewNodes(ctxCount + 1), ctxCount |-> ctxCount + 1, warned |-> warned,
        thrown |-> FALSE]
  ELSE [nodes |-> Null, ctxCount |-> ctxCount, warned |-> TRUE, thrown |-> FALSE]

(***************************************************************************)
(* Chime voice trigger and chime scheduler.                                *)
(***************************************************************************)
\* strikeChime with both oscillators stopped at the end of the fundamental.
strikeChime_sameStop(ctx, freq, gain, decay) ==
  /\ strikeCount' = strikeCount + 1
  /\ lastStrike' = [ctx |-> ctx, freq |-> freq, gain |-> gain, decay |-> decay,
                    oscStop |-> decay * 100 + StopGuardMs,
                    osc2Stop |-> decay * 100 + StopGuardMs]

\* strikeChime(ctx, destination, freq, gain, decay); gain in 1/(1000 * LevelScale).
\* The voice is two oscillators started now; oscStop and osc2Stop are the times
\* of their scheduled stop(), in ms after now (decay is in 1/10 s).
strikeChime(ctx, freq, gain, decay) ==
  /\ strikeCount' = strikeCount + 1
  /\ lastStrike' = [ctx |-> ctx, freq |-> freq, gain |-> gain, decay |-> decay,
                    oscStop |-> decay * 100 + StopGuardMs,
                    osc2Stop |-> decay * OvertoneDecayPct + StopGuardMs]

\* The strike callback without the test of nodesRef.current.
StrikeCallback_noGuard(k, r) ==
  /\ k \in DOMAIN strikeTimers
  /\ strikeTimers' = SubSeq(strikeTimers, 1, k - 1) \o SubSeq(strikeTimers, k + 1, Len(strikeTimers))
  /\ LET c == strikeTimers[k]
         pitch == At(c.config.pitches, (r * Len(c.config.pitches)) \div RandScale)
     IN strikeChime(nodesRef.ctx, pitch, c.config.gain * c.masterLevel, c.config.decay)
  /\ UNCHANGED <<progress, isPlaying, renderedPlaying, nodesRef, chimeTimerRef,
                 currentSceneRef, masterLevelRef, sceneBlend, timers, ctxCount, closedCtx,
                 lastDispose, audioAvailable, interp, warned, uncaught>>


\* The strike callback computing the gain from the level cached when it runs.
StrikeCallback_liveLevel(k, r) ==
  /\ k \in DOMAIN strikeTimers
  /\ strikeTimers' = SubSeq(strikeTimers, 1, k - 1) \o SubSeq(strikeTimers, k + 1, Len(strikeTimers))
  /\ LET c == strikeTimers[k]
         pitch == At(c.config.pitches, (r * Len(c.config.pitches)) \div RandScale)
     IN IF nodesRef = Null
        THEN UNCHANGED <<strikeCount, lastStrike>>
        ELSE strikeChime(nodesRef.ctx, pitch, c.config.gain * masterLevelRef, c.config.decay)
  /\ UNCHANGED <<progress, isPlaying, renderedPlaying, nodesRef, chimeTimerRef,
                 currentSceneRef, masterLevelRef, sceneBlend, timers, ctxCount, closedCtx,
                 lastDispose, audioAvailable, interp, warned, uncaught>>

\* The strike callback looking up the chime config of the scene cached when it runs.
StrikeCallback_liveConfig(k, r) ==
  /\ k \in DOMAIN strikeTimers
  /\ strikeTimers' = SubSeq(strikeTimers, 1, k - 1) \o SubSeq(strikeTimers, k + 1, Len(strikeTimers))
  /\ LET c == strikeTimers[k]
         config == At(CHIME_CONFIGS, currentSceneRef)
         pitch == At(config.pitches, (r * Len(config.pitches)) \div RandScale)
     IN IF nodesRef = Null
        THEN UNCHANGED <<strikeCount, lastStrike>>
        ELSE strikeChime(nodesRef.ctx, pitch, config.gain * c.masterLevel, config.decay)
  /\ UNCHANGED <<progress, isPlaying, renderedPlaying, nodesRef, chimeTimerRef,
                 currentSceneRef, masterLevelRef, sceneBlend, timers, ctxCount, closedCtx,
                 lastDispose, audioAvailable, interp, warned, uncaught>>

\* One staggered strike callback of a cluster fires.  r samples Math.random()
\* for the pitch.  The callbacks of a cluster fire in any order.
StrikeCallback(k, r) ==
  /\ k \in DOMAIN strikeTimers
  /\ strikeTimers' = SubSeq(strikeTimers, 1, k - 1) \o SubSeq(strikeTimers, k + 1, Len(strikeTimers))
  /\ LET c == strikeTimers[k]
         pitch == At(c.config.pitches, (r * Len(c.config.pitches)) \div RandScale)
     IN IF nodesRef = Null
        THEN UNCHANGED <<strikeCount, lastStrike>>
        ELSE strikeChime(nodesRef.ctx, pitch, c.config.gain * c.masterLevel, c.config.decay)
  /\ UNCHANGED <<progress, isPlaying, renderedPlaying, nodesRef, chimeTimerRef,
                 currentSceneRef, masterLevelRef, sceneBlend, timers, ctxCount, closedCtx,
                 lastDispose, audioAvailable, interp, warned, uncaught>>

\* scheduleNextChime with the cluster size drawn from 0..clusterMax.
Tick_countFromZero(t, rc, ri) ==
  /\ t \in timers
  /\ strikeTimers = << >>
  /\ UNCHANGED <<progress, isPlaying, renderedPlaying, nodesRef, currentSceneRef,
                 masterLevelRef, sceneBlend, strikeCount, lastStrike, ctxCount, closedCtx,
                 lastDispose, audioAvailable, interp, warned, uncaught>>
  /\ LET fired == timers \ {t}
         scene == currentSceneRef
         masterLevel == masterLevelRef
     IN IF nodesRef = Null
        THEN /\ timers' = fired
             /\ UNCHANGED <<chimeTimerRef, strikeTimers>>
        ELSE IF scene \notin SceneIndex \/ masterLevel < AudibleThreshold
        THEN /\ timers' = fired \cup {[id |-> NewTimerId(fired), delay |-> BackoffMs, by |-> "scheduleNextChime"]}
             /\ chimeTimerRef' = NewTimerId(fired)
             /\ UNCHANGED strikeTimers
        ELSE LET config == At(CHIME_CONFIGS, scene)
                 count == (rc * (config.clusterMax + 1)) \div RandScale
                 interval == config.intervalMin
                             + (ri * (config.intervalMax - config.intervalMin)) \div RandScale
             IN /\ strikeCount + count <= MaxStrikes
                /\ strikeTimers' = [i \in 1 .. count |->
                                      [config |-> config, masterLevel |-> masterLevel]]
                /\ timers' = fired \cup {[id |-> NewTimerId(fired), delay |-> interval, by |-> "scheduleNextChime"]}
                /\ chimeTimerRef' = NewTimerId(fired)

\* scheduleNextChime giving up when the level is inaudible: no backoff timer.
Tick_noBackoff(t, rc, ri) ==
  /\ t \in timers
  /\ strikeTimers = << >>
  /\ UNCHANGED <<progress, isPlaying, renderedPlaying, nodesRef, currentSceneRef,
                 masterLevelRef, sceneBlend, strikeCount, lastStrike, ctxCount, closedCtx,
                 lastDispose, audioAvailable, interp, warned, uncaught>>
  /\ LET fired == timers \ {t}
         scene == currentSceneRef
         masterLevel == masterLevelRef
     IN IF nodesRef = Null
        THEN /\ timers' = fired
             /\ UNCHANGED <<chimeTimerRef, strikeTimers>>
        ELSE IF scene \notin SceneIndex \/ masterLevel < AudibleThreshold
        THEN /\ timers' = fired
             /\ UNCHANGED <<chimeTimerRef, strikeTimers>>
        ELSE LET config == At(CHIME_CONFIGS, scene)
                 count == 1 + (rc * config.clusterMax) \div RandScale
                 interval == config.intervalMin
                             + (ri * (config.intervalMax - config.intervalMin)) \div RandScale
             IN /\ strikeCount + count <= MaxStrikes
                /\ strikeTimers' = [i \in 1 .. count |->
                                      [config |-> config, masterLevel |-> masterLevel]]
                /\ timers' = fired \cup {[id |-> NewTimerId(fired), delay |-> interval, by |-> "scheduleNextChime"]}
                /\ chimeTimerRef' = NewTimerId(fired)

\* scheduleNextChime without the audibility test.
Tick_noThreshold(t, rc, ri) ==
  /\ t \in timers
  /\ strikeTimers = << >>
  /\ UNCHANGED <<progress, isPlaying, renderedPlaying, nodesRef, currentSceneRef,
                 masterLevelRef, sceneBlend, strikeCount, lastStrike, ctxCount, closedCtx,
                 lastDispose, audioAvailable, interp, warned, uncaught>>
  /\ LET fired == timers \ {t}
         scene == currentSceneRef
         masterLevel == masterLevelRef
     IN IF nodesRef = Null
        THEN /\ timers' = fired
             /\ UNCHANGED <<chimeTimerRef, strikeTimers>>
        ELSE IF scene \notin SceneIndex
        THEN /\ timers' = fired \cup {[id |-> NewTimerId(fired), delay |-> BackoffMs, by |-> "scheduleNextChime"]}
             /\ chimeTimerRef' = NewTimerId(fired)
             /\ UNCHANGED strikeTimers
        ELSE LET config == At(CHIME_CONFIGS, scene)
                 count == 1 + (rc * config.clusterMax) \div RandScale
                 interval == config.intervalMin
                             + (ri * (config.intervalMax - config.intervalMin)) \div RandScale
             IN /\ strikeCount + count <= MaxStrikes
                /\ strikeTimers' = [i \in 1 .. count |->
                                      [config |-> config, masterLevel |-> masterLevel]]
                /\ timers' = fired \cup {[id |-> NewTimerId(fired), delay |-> interval, by |-> "scheduleNextChime"]}
                /\ chimeTimerRef' = NewTimerId(fired)

\* scheduleNextChime, run by the timer t.  rc samples Math.random() for the
\* cluster size, ri for the next interval.  Every staggered strike is due at
\* most 0.46 s after the tick and every scheduler timer at least 1.5 s after
\* the call that set it, so a tick finds no strike callback of an earlier
\* cluster still pending.
Tick(t, rc, ri) ==
  /\ t \in timers
  /\ strikeTimers = << >>
  /\ UNCHANGED <<progress, isPlaying, renderedPlaying, nodesRef, currentSceneRef,
                 masterLevelRef, sceneBlend, strikeCount, lastStrike, ctxCount, closedCtx,
                 lastDispose, audioAvailable, interp, warned, uncaught>>
  /\ LET fired == timers \ {t}
         scene == currentSceneRef
         masterLevel == masterLevelRef
     IN IF nodesRef = Null
        THEN /\ timers' = fired
             /\ UNCHANGED <<chimeTimerRef, strikeTimers>>
        ELSE IF scene \notin SceneIndex \/ masterLevel < AudibleThreshold
        THEN /\ timers' = fired \cup {[id |-> NewTimerId(fired), delay |-> BackoffMs, by |-> "scheduleNextChime"]}
             /\ chimeTimerRef' = NewTimerId(fired)
             /\ UNCHANGED strikeTimers
        ELSE LET config == At(CHIME_CONFIGS, scene)
                 count == 1 + (rc * config.clusterMax) \div RandScale
                 interval == config.intervalMin
                             + (ri * (config.intervalMax - config.intervalMin)) \div RandScale
             IN /\ strikeCount + count <= MaxStrikes
                /\ strikeTimers' = [i \in 1 .. count |->
                                      [config |-> config, masterLevel |-> masterLevel]]
                /\ timers' = fired \cup {[id |-> NewTimerId(fired), delay |-> interval, by |-> "scheduleNextChime"]}
                /\ chimeTimerRef' = NewTimerId(fired)

(***************************************************************************)
(* Engine controller.                                                      *)
(***************************************************************************)
\* startAudio without the clearTimeout of the previous scheduler timer.
startAudio_noClear(init, r) ==
  LET nodes == init.nodes
  IN IF init.thrown \/ nodes = Null
     THEN [nodes |-> nodes, isPlaying |-> isPlaying, chimeTimerRef |-> chimeTimerRef,
           timers |-> timers]
     ELSE [nodes |-> [nodes EXCEPT !.params.masterGain_gain = RampTo(@, 1, StartRampMs)],
           isPlaying |-> TRUE,
           chimeTimerRef |-> NewTimerId(timers),
           timers |-> timers \cup
             {[id |-> NewTimerId(timers),
               delay |-> StartDelayMinMs + (r * StartDelaySpanMs) \div RandScale,
               by |-> "startAudio"]}]

\* What startAudio leaves in nodesRef, isPlaying, chimeTimerRef and the pending
\* timers (with what initAudio did), given the nodes it finds after initAudio.
\* r samples Math.random() for the scheduler's initial delay.
startAudio(init, r) ==
  LET nodes == init.nodes
      cleared == IF chimeTimerRef # 0 THEN clearTimeout(timers, chimeTimerRef) ELSE timers
  IN IF init.thrown \/ nodes = Null
     THEN [nodes |-> nodes, isPlaying |-> isPlaying, chimeTimerRef |-> chimeTimerRef,
           timers |-> timers]
     ELSE [nodes |-> [nodes EXCEPT !.params.masterGain_gain = RampTo(@, 1, StartRampMs)],
           isPlaying |-> TRUE,
           chimeTimerRef |-> NewTimerId(cleared),
           timers |-> cleared \cup
             {[id |-> NewTimerId(cleared),
               delay |-> StartDelayMinMs + (r * StartDelaySpanMs) \div RandScale,
               by |-> "startAudio"]}]

\* startAudio constructing a graph on every call, whether or not one exists.
StartAudio_rebuild(r) ==
  /\ LET init == IF audioAvailable
                 THEN [nodes |-> NewNodes(ctxCount + 1), ctxCount |-> ctxCount + 1,
                       warned |-> warned, thrown |-> FALSE]
                 ELSE [nodes |-> Null, ctxCount |-> ctxCount, warned |-> TRUE,
                       thrown |-> FALSE]
         after == startAudio(init, r)
     IN /\ ctxCount' = init.ctxCount
        /\ warned' = init.warned
        /\ uncaught' = (uncaught \/ init.thrown)
        /\ nodesRef' = after.nodes
        /\ isPlaying' = after.isPlaying
        /\ chimeTimerRef' = after.chimeTimerRef
        /\ timers' = after.timers
  /\ UNCHANGED <<progress, renderedPlaying, currentSceneRef, masterLevelRef, sceneBlend,
                 strikeTimers, strikeCount, lastStrike, closedCtx, lastDispose,
                 audioAvailable, interp>>

StartAudio(r) ==
  /\ nodesRef # Null \/ ~audioAvailable \/ ctxCount < MaxGraphs
  /\ LET init == IF nodesRef = Null
                 THEN initAudio
                 ELSE [nodes |-> nodesRef, ctxCount |-> ctxCount, warned |-> warned,
                       thrown |-> FALSE]
         after == startAudio(init, r)
     IN /\ ctxCount' = init.ctxCount
        /\ warned' = init.warned
        /\ uncaught' = (uncaught \/ init.thrown)
        /\ nodesRef' = after.nodes
        /\ isPlaying' = after.isPlaying
        /\ chimeTimerRef' = after.chimeTimerRef
        /\ timers' = after.timers
  /\ UNCHANGED <<progress, renderedPlaying, currentSceneRef, masterLevelRef, sceneBlend,
                 strikeTimers, strikeCount, lastStrike, closedCtx, lastDispose,
                 audioAvailable, interp>>

\* stopAudio leaving the scheduler timer pending.
stopAudio_noClear ==
  IF nodesRef = Null
  THEN [nodes |-> nodesRef, isPlaying |-> isPlaying, chimeTimerRef |-> chimeTimerRef,
        timers |-> timers]
  ELSE [nodes |-> [nodesRef EXCEPT !.params.masterGain_gain = RampTo(@, 0, StopRampMs)],
        isPlaying |-> FALSE,
        chimeTimerRef |-> chimeTimerRef,
        timers |-> timers]


\* What stopAudio leaves in nodesRef, isPlaying, chimeTimerRef and the pending timers.
stopAudio ==
  IF nodesRef = Null
  THEN [nodes |-> nodesRef, isPlaying |-> isPlaying, chimeTimerRef |-> chimeTimerRef,
        timers |-> timers]
  ELSE [nodes |-> [nodesRef EXCEPT !.params.masterGain_gain = RampTo(@, 0, StopRampMs)],
        isPlaying |-> FALSE,
        chimeTimerRef |-> 0,
        timers |-> IF chimeTimerRef # 0 THEN clearTimeout(timers, chimeTimerRef) ELSE timers]

StopAudio ==
  /\ nodesRef' = stopAudio.nodes
  /\ isPlaying' = stopAudio.isPlaying
  /\ chimeTimerRef' = stopAudio.chimeTimerRef
  /\ timers' = stopAudio.timers
  /\ UNCHANGED <<progress, renderedPlaying, currentSceneRef, masterLevelRef, sceneBlend,
                 strikeTimers, strikeCount, lastStrike, ctxCount, closedCtx, lastDispose,
                 audioAvailable, interp, warned, uncaught>>

\* toggleAudio closes over the isPlaying of the render that created it.
ToggleAudio(r) == IF renderedPlaying THEN StopAudio ELSE StartAudio(r)

\* The cleanup with one try/catch around all five calls: the first call that
\* throws ends the block, and the reference is dropped only at its end.
CleanupCalls_oneTry(failing) ==
  LET firstFail == IF \E i \in DOMAIN Sources : Sources[i] \in failing
                   THEN Least({i \in DOMAIN Sources : Sources[i] \in failing})
                   ELSE Len(Sources) + 1
  IN [stopCalled |-> {Sources[i] : i \in {j \in DOMAIN Sources : j <= firstFail}},
      closeCalled |-> firstFail > Len(Sources),
      caught |-> IF firstFail <= Len(Sources) THEN {Sources[firstFail]} ELSE failing,
      dropped |-> failing = {},
      thrown |-> FALSE]

\* The cleanup that stops and closes without dropping the reference.
CleanupCalls_keepsRef(failing) ==
  [stopCalled |-> SourceSet, closeCalled |-> TRUE, caught |-> failing,
   dropped |-> FALSE, thrown |-> FALSE]

\* The stop() and close() calls one cleanup makes on the graph it finds, each
\* in its own try/catch.  failing: the calls that throw.
CleanupCalls(failing) ==
  [stopCalled |-> SourceSet, closeCalled |-> TRUE, caught |-> failing,
   dropped |-> TRUE, thrown |-> FALSE]

\* The cleanup effect (dispose).
Dispose(failing) ==
  /\ timers' = IF chimeTimerRef # 0 THEN clearTimeout(timers, chimeTimerRef) ELSE timers
  /\ IF nodesRef = Null
     THEN UNCHANGED <<nodesRef, closedCtx, lastDispose, uncaught>>
     ELSE LET did == CleanupCalls(failing)
          IN /\ lastDispose' = [ctx |-> nodesRef.ctx, stopCalled |-> did.stopCalled,
                                closeCalled |-> did.closeCalled, caught |-> did.caught]
             /\ closedCtx' = IF did.closeCalled THEN closedCtx \cup {nodesRef.ctx} ELSE closedCtx
             /\ nodesRef' = IF did.dropped THEN Null ELSE nodesRef
             /\ uncaught' = (uncaught \/ did.thrown)
  /\ UNCHANGED <<progress, isPlaying, renderedPlaying, chimeTimerRef, currentSceneRef,
                 masterLevelRef, sceneBlend, strikeTimers, strikeCount, lastStrike, ctxCount,
                 audioAvailable, interp, warned>>

\* Which of the five guarded calls of a cleanup throw: none, the first stop(),
\* a later stop(), or all five.
FailureCases ==
  {{}, {"noiseSource"}, {"gustLfo"}, SourceSet \cup {"ctx"}}

(***************************************************************************)
(* Specifications.                                                         *)
(***************************************************************************)
\* The hook after its first render with progress p: the progress effect has run.
Mounted(p) ==
  /\ progress = p
  /\ isPlaying = FALSE
  /\ renderedPlaying = FALSE
  /\ nodesRef = Null
  /\ chimeTimerRef = 0
  /\ sceneBlend = getSceneBlend(p)
  /\ currentSceneRef = (IF getSceneBlend(p).blend > HalfBlend
                        THEN getSceneBlend(p).sceneB ELSE getSceneBlend(p).sceneA)
  /\ masterLevelRef = getSceneBlend(p).masterGain
  /\ timers = {}
  /\ strikeTimers = << >>
  /\ strikeCount = 0
  /\ lastStrike = NoStrike
  /\ ctxCount = 0
  /\ closedCtx = {}
  /\ lastDispose = NoDispose
  /\ warned = FALSE
  /\ uncaught = FALSE
  /\ interp = NoCall

Init == Mounted(0) /\ audioAvailable \in BOOLEAN

Next ==
  \/ \E p \in ProgressSet : OnProgress(p)
  \/ Rerender
  \/ \E r \in Rand : StartAudio(r)
  \/ StopAudio
  \/ \E r \in Rand : ToggleAudio(r)
  \/ \E t \in timers, rc \in Rand, ri \in Rand : Tick(t, rc, ri)
  \/ \E k \in DOMAIN strikeTimers, r \in Rand : StrikeCallback(k, r)
  \/ \E failing \in FailureCases : Dispose(failing)

Spec == Init /\ [][Next]_vars

\* The lifecycle with the event loop's guarantee: a timer that is due runs.
\* A scheduler timer stays pending until it fires or is cleared, and a strike
\* callback until it fires.
Fairness ==
  /\ WF_vars(\E t \in timers, rc \in Rand, ri \in Rand : Tick(t, rc, ri))
  /\ WF_vars(\E k \in DOMAIN strikeTimers, r \in Rand : StrikeCallback(k, r))

SpecLive == Init /\ [][Next]_vars /\ Fairness


\* The resolver alone: mounted at any progress of the range or at NaN, then
\* scrolled.
InitResolve ==
  /\ audioAvailable = TRUE
  /\ \E p \in ((0 - NegRange) .. MaxProgress) \cup {NaN} : Mounted(p)

Scroll ==
  /\ Lt(progress, MaxProgress)
  /\ OnProgress(progress + 1)

NextResolve == Scroll

SpecResolve == InitResolve /\ [][NextResolve]_vars

\* The neighbourhood of the four transitions: mounted at a progress within
\* Margin of a transition window, then scrolled forward, started at any time.
BlendProgress ==
  UNION {(At(transitions, k).start - Margin) .. (At(transitions, k).end + Margin) : k \in 0 .. 3}

InitBlend ==
  /\ audioAvailable = TRUE
  /\ \E p \in BlendProgress : Mounted(p)

ScrollBlend ==
  /\ progress + 1 \in BlendProgress
  /\ OnProgress(progress + 1)

NextBlend ==
  \/ ScrollBlend
  \/ \E r \in Rand : StartAudio(r)

SpecBlend == InitBlend /\ [][NextBlend]_vars

\* The interpolators alone, on every pair of table entries of each variant.
\* They are pure: each behaviour makes one call.
LerpT(k) == Number((k * 1000) \div LerpSteps, 1000)

CallLerpWindConfig(i, j, k) ==
  /\ interp = NoCall
  /\ interp' = [fn |-> "lerpWindConfig", a |-> i, b |-> j, t |-> LerpT(k),
                out |-> lerpWindConfig64(WindDoubles(At(WIND_CONFIGS, i)),
                                         WindDoubles(At(WIND_CONFIGS, j)), LerpT(k))]
  /\ UNCHANGED <<progress, isPlaying, renderedPlaying, nodesRef, chimeTimerRef,
                 currentSceneRef, masterLevelRef, sceneBlend, timers, strikeTimers,
                 strikeCount, lastStrike, ctxCount, closedCtx, lastDispose,
                 audioAvailable, warned, uncaught>>

CallLerpConfigWind(i, j, k) ==
  /\ interp = NoCall
  /\ interp' = [fn |-> "lerpConfig (wind)", a |-> i, b |-> j, t |-> LerpT(k),
                out |-> lerpConfig_wind(WindDoubles(At(WIND_ONLY_CONFIGS, i)),
                                        WindDoubles(At(WIND_ONLY_CONFIGS, j)), LerpT(k))]
  /\ UNCHANGED <<progress, isPlaying, renderedPlaying, nodesRef, chimeTimerRef,
                 currentSceneRef, masterLevelRef, sceneBlend, timers, strikeTimers,
                 strikeCount, lastStrike, ctxCount, closedCtx, lastDispose,
                 audioAvailable, warned, uncaught>>

CallLerpConfigDrone(i, j, k) ==
  /\ interp = NoCall
  /\ interp' = [fn |-> "lerpConfig (drone)", a |-> i, b |-> j, t |-> LerpT(k),
                out |-> lerpConfig_drone(SceneDoubles(At(SCENE_CONFIGS, i)),
                                         SceneDoubles(At(SCENE_CONFIGS, j)), LerpT(k))]
  /\ UNCHANGED <<progress, isPlaying, renderedPlaying, nodesRef, chimeTimerRef,
                 currentSceneRef, masterLevelRef, sceneBlend, timers, strikeTimers,
                 strikeCount, lastStrike, ctxCount, closedCtx, lastDispose,
                 audioAvailable, warned, uncaught>>

InitLerp == Mounted(0) /\ audioAvailable = TRUE

NextLerp ==
  \/ \E i \in SceneIndex, j \in SceneIndex, k \in 0 .. LerpSteps : CallLerpWindConfig(i, j, k)
  \/ \E i \in SceneIndex, j \in SceneIndex, k \in 0 .. LerpSteps : CallLerpConfigWind(i, j, k)
  \/ \E i \in SceneIndex, j \in SceneIndex, k \in 0 .. LerpSteps : CallLerpConfigDrone(i, j, k)

SpecLerp == InitLerp /\ [][NextLerp]_vars

\* The drone interpolator alone, on every pair of table entries with their
\* harmonic list and gain list cut to their first n and m entries.
DroneArg(i, n) ==
  LET c == SceneDoubles(At(SCENE_CONFIGS, i))
  IN [c EXCEPT !.harmonics = SubSeq(@, 1, n), !.harmonicGains = SubSeq(@, 1, n)]

DroneT(k) == Number((k * 1000) \div DroneSteps, 1000)

CallLerpConfigDroneLists(i, j, n, m, k) ==
  /\ interp = NoCall
  /\ interp' = [fn |-> "lerpConfig (drone)", a |-> i, b |-> j, na |-> n, nb |-> m,
                k |-> k, t |-> DroneT(k),
                out |-> lerpConfig_drone(DroneArg(i, n), DroneArg(j, m), DroneT(k))]
  /\ UNCHANGED <<progress, isPlaying, renderedPlaying, nodesRef, chimeTimerRef,
                 currentSceneRef, masterLevelRef, sceneBlend, timers, strikeTimers,
                 strikeCount, lastStrike, ctxCount, closedCtx, lastDispose,
                 audioAvailable, warned, uncaught>>

ListLengths == (Len(At(SCENE_CONFIGS, 0).harmonics) - CutMax) .. Len(At(SCENE_CONFIGS, 0).harmonics)

NextDrone ==
  \E i \in SceneIndex, j \in SceneIndex, n \in ListLengths, m \in ListLengths, k \in 0 .. DroneSteps :
    CallLerpConfigDroneLists(i, j, n, m, k)

SpecDrone == InitLerp /\ [][NextDrone]_vars


(***************************************************************************)
(* Claims.                                                                 *)
(***************************************************************************)
\* The engine has been stopped and not started again: the graph is there and
\* isPlaying is false.
Stopped == nodesRef # Null /\ ~isPlaying

\* C1: after stop() returns, no chime strike is invoked until the next start():
\* no step taken while the engine is stopped invokes strikeChime.
C1_NoStrikeWhileStopped == [][Stopped => strikeCount' = strikeCount]_vars

\* C2: in every reachable state, a call to stop() leaves isPlaying false and
\* leaves no scheduler tick pending.
C2_StopLeavesStopped == stopAudio.isPlaying = FALSE /\ stopAudio.timers = {}

\* C3: no step taken while the cached master level is below 0.05 dispatches a
\* strike callback, and in every run in which the level stays below 0.05 no
\* chime strike is ever dispatched or invoked.
C3_NoStrikeWhileInaudible ==
  /\ [][masterLevelRef < AudibleThreshold => Len(strikeTimers') <= Len(strikeTimers)]_vars
  /\ [](masterLevelRef < AudibleThreshold) => [](strikeCount = 0 /\ strikeTimers = << >>)

\* C3 witness: at a nonzero inaudible level, a tick has run and has set the
\* 2 s backoff timer, and nothing was struck.
C3_Witness ==
  /\ masterLevelRef > 0
  /\ masterLevelRef < AudibleThreshold
  /\ \E t \in timers : t.delay = BackoffMs
  /\ strikeCount = 0

\* C4: at most one scheduler tick is pending.
C4_AtMostOneTick == Cardinality(timers) <= 1

\* C4 witness: one tick pending on a second graph, after strikes: starts,
\* ticks, a dispose and a restart have all acted.
C4_Witness ==
  /\ Cardinality(timers) = 1
  /\ strikeCount > 0
  /\ nodesRef # Null
  /\ nodesRef.ctx = 2

\* C5: while a graph exists no step constructs another context or replaces the
\* graph, and only a cleanup, which closes its context, drops it.
C5_GraphBuiltOnce ==
  [][nodesRef # Null =>
       /\ ctxCount' = ctxCount
       /\ nodesRef' # Null => nodesRef'.ctx = nodesRef.ctx
       /\ nodesRef' = Null => (nodesRef.ctx \in closedCtx' /\ nodesRef.ctx \notin closedCtx)]_vars

\* C5 witness: the first graph is still the only one after a stop and strikes.
C5_Witness ==
  /\ Stopped
  /\ nodesRef.ctx = 1
  /\ ctxCount = 1
  /\ strikeCount > 0

\* C6: a cleanup step leaves no tick pending and no graph reference, and a
\* start() that finds no graph after a cleanup builds a new context with
\* construction-time parameters and sets exactly one scheduler timer, with the
\* initial delay.
C6_DisposeThenFreshStart ==
  [][/\ (\E failing \in FailureCases : Dispose(failing)) => (timers' = {} /\ nodesRef' = Null)
     /\ (nodesRef = Null /\ closedCtx # {} /\ nodesRef' # Null) =>
          /\ nodesRef'.ctx \notin closedCtx
          /\ ctxCount' = ctxCount + 1
          /\ nodesRef' = [NewNodes(ctxCount') EXCEPT
                            !.params.masterGain_gain = RampTo(@, 1, StartRampMs)]
          /\ Cardinality(timers') = 1
          /\ \A t \in timers' :
               /\ t.id = chimeTimerRef'
               /\ t.delay >= StartDelayMinMs
               /\ t.delay < StartDelayMinMs + StartDelaySpanMs]_vars

\* C6 witness: after a cleanup that cancelled a running engine, a start() has
\* built the second graph and its first tick is pending.
C6_Witness ==
  /\ closedCtx = {1}
  /\ nodesRef # Null
  /\ nodesRef.ctx = 2
  /\ timers # {}

\* C7: no cleanup raises, and every cleanup that found a graph called stop()
\* on all four source nodes, called close() and dropped the reference, whichever
\* of the calls threw.
C7_DisposeNeverRaises ==
  /\ uncaught = FALSE
  /\ lastDispose # NoDispose =>
       /\ lastDispose.stopCalled = SourceSet
       /\ lastDispose.closeCalled
       /\ lastDispose.ctx \in closedCtx
       /\ nodesRef # Null => nodesRef.ctx # lastDispose.ctx

\* C7 witness: stop() then dispose(), in which the first stop() call threw.
C7_Witness ==
  /\ lastDispose # NoDispose
  /\ lastDispose.caught = {"noiseSource"}
  /\ ~isPlaying
  /\ nodesRef = Null

\* C8: where audio is unavailable nothing is thrown, isPlaying stays false, no
\* tick is scheduled, no graph exists and nothing is struck.
C8_UnavailableIsNoOp ==
  ~audioAvailable =>
    /\ uncaught = FALSE
    /\ isPlaying = FALSE
    /\ timers = {}
    /\ chimeTimerRef = 0
    /\ nodesRef = Null
    /\ ctxCount = 0
    /\ strikeTimers = << >>
    /\ strikeCount = 0

\* C8 witness: a start() has failed and was logged, and progress has moved on.
C8_Witness == ~audioAvailable /\ warned /\ progress = 19500

\* C9: an onProgress while not playing leaves the graph as it is and sets the
\* cached scene and the cached level to those resolved from the new progress.
C9_ProgressWhileNotPlaying ==
  [][(progress' # progress /\ ~isPlaying) =>
       /\ nodesRef' = nodesRef
       /\ currentSceneRef' = (IF getSceneBlend(progress').blend > HalfBlend
                              THEN getSceneBlend(progress').sceneB
                              ELSE getSceneBlend(progress').sceneA)
       /\ masterLevelRef' = getSceneBlend(progress').masterGain]_vars

\* C9 witness: stopped with the graph kept, progress moved into the I->II
\* transition: scene II is cached and the wind band carries no ramp.
C9_Witness ==
  /\ Stopped
  /\ progress = 19500
  /\ currentSceneRef = 1
  /\ masterLevelRef = LevelScale
  /\ nodesRef.params.bandFilter_frequency.events = << >>

\* progress lies in the stable window of scene i, endpoints included.
InWindow(p, i) == Ge(p, At(scenes, i).start) /\ Le(p, At(scenes, i).end)
\* progress lies in some transition window, endpoints included.
InTransition(p) ==
  \E k \in 0 .. 3 : Ge(p, At(transitions, k).start) /\ Le(p, At(transitions, k).end)

\* C10 as stated: in a stable window, endpoints included, the resolver returns
\* that scene twice, blend 0 and level 1.
C10_Original ==
  \A i \in SceneIndex :
    InWindow(progress, i) =>
      sceneBlend = [sceneA |-> i, sceneB |-> i, blend |-> 0, masterGain |-> LevelScale]

\* C10 amended: in a stable window, except at an endpoint it shares with a
\* transition window, the resolver returns that scene twice, blend 0 and level
\* 1; at a shared endpoint the transition branch answers: the adjacent pair,
\* level 1, blend 0 at the window's end and blend 1 at the window's start.
C10_StableWindow ==
  \A i \in SceneIndex :
    InWindow(progress, i) =>
      IF ~InTransition(progress)
      THEN sceneBlend = [sceneA |-> i, sceneB |-> i, blend |-> 0, masterGain |-> LevelScale]
      ELSE IF progress = At(scenes, i).end
      THEN sceneBlend = [sceneA |-> i, sceneB |-> i + 1, blend |-> 0,
                         masterGain |-> LevelScale]
      ELSE sceneBlend = [sceneA |-> i - 1, sceneB |-> i, blend |-> BlendScale,
                         masterGain |-> LevelScale]

\* C10 witness: the closed start of the first window, reached by scrolling.
C10_Witness ==
  /\ progress = At(scenes, 0).start
  /\ sceneBlend = [sceneA |-> 0, sceneB |-> 0, blend |-> 0, masterGain |-> LevelScale]

\* C11: in a transition window, endpoints included, the resolver returns the
\* adjacent pair, level 1 and blend = (progress - start) / (end - start); at
\* 0.19 that is scenes 0 and 1 at blend 0.5.
C11_TransitionBlend ==
  /\ \A k \in 0 .. 3 :
       LET t == At(transitions, k)
       IN (Ge(progress, t.start) /\ Le(progress, t.end)) =>
            /\ sceneBlend.sceneA = k
            /\ sceneBlend.sceneB = k + 1
            /\ sceneBlend.masterGain = LevelScale
            /\ sceneBlend.blend * (t.end - t.start) = (progress - t.start) * BlendScale
  /\ progress = 19000 =>
       sceneBlend = [sceneA |-> 0, sceneB |-> 1, blend |-> HalfBlend, masterGain |-> LevelScale]

\* C11 witness: the midpoint of the III->IV transition.
C11_Witness ==
  /\ progress = 53000
  /\ sceneBlend = [sceneA |-> 2, sceneB |-> 3, blend |-> HalfBlend, masterGain |-> LevelScale]

\* C12: for progress in [0, 0.03) the resolver returns scene 0 twice, blend 0
\* and level progress / 0.03 * 0.5.
C12_PreRoll ==
  (Ge(progress, 0) /\ Lt(progress, PreRollEnd)) =>
    /\ sceneBlend.sceneA = 0
    /\ sceneBlend.sceneB = 0
    /\ sceneBlend.blend = 0
    /\ sceneBlend.masterGain * 2 * PreRollEnd = progress * LevelScale

\* C12 witness: progress 0.015, level 0.25.
C12_Witness ==
  /\ progress = 1500
  /\ sceneBlend.masterGain * 4 = LevelScale

\* C13: for progress > 0.86 the resolver holds scene 4 at blend 0 with level
\* 1 - min(1, (progress - 0.86) / 0.12): it falls linearly, and is 0 from 0.98 on.
C13_TailFade ==
  Gt(progress, TailStart) =>
    /\ sceneBlend.sceneA = 4
    /\ sceneBlend.sceneB = 4
    /\ sceneBlend.blend = 0
    /\ Lt(progress, TailStart + TailSpan) =>
         (LevelScale - sceneBlend.masterGain) * TailSpan = (progress - TailStart) * LevelScale
    /\ Ge(progress, TailStart + TailSpan) => sceneBlend.masterGain = 0

\* C13 witness: the overshoot 1.5, silent in scene 4.
C13_Witness ==
  /\ progress = MaxProgress
  /\ progress > ProgScale
  /\ sceneBlend = [sceneA |-> 4, sceneB |-> 4, blend |-> 0, masterGain |-> 0]

\* C14: for every progress the resolver returns scene indices in 0..4, blend
\* in [0, 1] and master level in [0, 1].
C14_Ranges ==
  /\ sceneBlend.sceneA \in SceneIndex
  /\ sceneBlend.sceneB \in SceneIndex
  /\ sceneBlend.blend >= 0
  /\ sceneBlend.blend <= BlendScale
  /\ sceneBlend.masterGain >= 0
  /\ sceneBlend.masterGain <= LevelScale

\* progress is negative, above 1 or not a number.
Malformed(p) == p = NaN \/ p < 0 \/ p > ProgScale

\* C15: for malformed progress the resolver yields master level 0, the gains
\* of the wind layers are targeted at 0 while playing, and no strike is
\* dispatched.
C15_MalformedIsSilent ==
  Malformed(progress) =>
    /\ sceneBlend.masterGain = 0
    /\ masterLevelRef = 0
    /\ (nodesRef # Null /\ isPlaying /\ renderedPlaying) =>
         \A n \in {"bandGain_gain", "whistleGain_gain", "rumbleGain_gain", "gustLfoGain_gain"} :
           \A e \in DOMAIN nodesRef.params[n].events :
             nodesRef.params[n].events[e].op = "linearRampToValueAtTime" =>
               nodesRef.params[n].events[e].target = 0
    /\ strikeTimers = << >>

\* The tick that runs now strikes: a graph exists, the cached scene has a
\* chime config and the cached level is audible.
AudibleTick ==
  /\ \E t \in timers, rc \in Rand, ri \in Rand : Tick(t, rc, ri)
  /\ nodesRef # Null
  /\ currentSceneRef \in SceneIndex
  /\ masterLevelRef >= AudibleThreshold

\* C18: every audible tick schedules between 1 and clusterMax strike
\* callbacks, clusterMax being that of the scene cached at the tick.
C18_ClusterSize ==
  [][AudibleTick =>
       /\ Len(strikeTimers') >= 1
       /\ Len(strikeTimers') <= At(CHIME_CONFIGS, currentSceneRef).clusterMax
       /\ \A i \in DOMAIN strikeTimers' :
            strikeTimers'[i].config = At(CHIME_CONFIGS, currentSceneRef)]_vars

\* C18 witness: a cluster of three, the largest of scene II (clusterMax 3).
C18_Witness ==
  /\ Len(strikeTimers) = 3
  /\ currentSceneRef = 1
  /\ strikeTimers[1].config.clusterMax = 3

\* The automation pending on a param is nothing, or one pin followed by one ramp.
OneRamp(events) ==
  \/ events = << >>
  \/ /\ Len(events) = 2
     /\ events[1] = Pin
     /\ events[2].op = "linearRampToValueAtTime"

\* C19: every param holds at most the pin and the ramp of the latest call that
\* targeted it; start() leaves the master gain ramping to 1 and stop() to 0,
\* whatever was pending, and an onProgress while playing leaves each wind
\* param with its own pin and 0.25 s ramp.
C19_CancelPinRamp ==
  /\ [](nodesRef # Null =>
          /\ \A n \in ParamNames : OneRamp(nodesRef.params[n].events)
          /\ nodesRef.params.masterGain_gain.events =
               <<Pin, IF isPlaying THEN Ramp(1, StartRampMs) ELSE Ramp(0, StopRampMs)>>)
  /\ [][(progress' # progress /\ isPlaying /\ nodesRef # Null) =>
          \A n \in DOMAIN WindTargets(At(WIND_CONFIGS, 0), 0) :
            /\ Len(nodesRef'.params[n].events) = 2
            /\ nodesRef'.params[n].events[1] = Pin
            /\ nodesRef'.params[n].events[2].dur = WindRampMs]_vars

\* C19 witness: stopped after start() and an onProgress while playing: the
\* master gain heads to 0 and the wind band holds one pin and one ramp.
C19_Witness ==
  /\ Stopped
  /\ nodesRef.params.masterGain_gain.events = <<Pin, Ramp(0, StopRampMs)>>
  /\ Len(nodesRef.params.bandFilter_frequency.events) = 2
  /\ nodesRef.params.bandFilter_frequency.events[2].dur = WindRampMs

\* C20: after every onProgress(p), playing or not, the cached scene is sceneB
\* of the resolved blend when blend > 0.5 and sceneA otherwise (sceneA at the
\* midpoint of a transition), and the cached level is the resolved level.
C20_CachedScene ==
  [][progress' # progress =>
       /\ currentSceneRef' = (IF getSceneBlend(progress').blend > HalfBlend
                              THEN getSceneBlend(progress').sceneB
                              ELSE getSceneBlend(progress').sceneA)
       /\ masterLevelRef' = getSceneBlend(progress').masterGain
       /\ \A k \in 0 .. 3 :
            LET t == At(transitions, k)
            IN /\ (progress' >= t.start /\ 2 * progress' <= t.start + t.end) =>
                    currentSceneRef' = t.from
               /\ (2 * progress' > t.start + t.end /\ progress' <= t.end) =>
                    currentSceneRef' = t.to]_vars

\* C20 witness: playing, scrolled onto the midpoint 0.19: blend 0.5, scene I cached.
C20_Witness ==
  /\ isPlaying
  /\ progress = 19000
  /\ sceneBlend.blend = HalfBlend
  /\ currentSceneRef = 0
  /\ nodesRef.params.bandFilter_frequency.events # << >>

\* The table entry an interpolator call was given as its argument number i.
LerpArg(fn, i) ==
  IF fn = "lerpWindConfig" THEN WindDoubles(At(WIND_CONFIGS, i))
  ELSE IF fn = "lerpConfig (wind)" THEN WindDoubles(At(WIND_ONLY_CONFIGS, i))
  ELSE SceneDoubles(At(SCENE_CONFIGS, i))

\* C16: interpolating a config with itself returns that config in every
\* field, for every t, in all three variants.
C16_LerpSelfIsIdentity ==
  (interp # NoCall /\ interp.a = interp.b) => interp.out = LerpArg(interp.fn, interp.a)

\* C16 witness: scene II of the wind and chimes variant interpolated with
\* itself at a t strictly between 0 and 1.
C16_Witness ==
  /\ interp # NoCall
  /\ interp.fn = "lerpWindConfig"
  /\ interp.a = 1
  /\ interp.b = 1
  /\ Lt64(Zero64, interp.t)
  /\ Lt64(interp.t, Number(1, 1))
  /\ interp.out.gustRate = Number(35, 100)

\* C17: in the two wind variants, for every pair of scene configs, the
\* interpolator returns exactly a at t = 0 and exactly b at t = 1.
C17_LerpEndpointsExact ==
  (interp # NoCall /\ interp.fn # "lerpConfig (drone)") =>
    /\ interp.t = Zero64 => interp.out = LerpArg(interp.fn, interp.a)
    /\ interp.t = Number(1, 1) => interp.out = LerpArg(interp.fn, interp.b)

\* A scheduler tick runs in this step and finds the graph.
TickOnGraph ==
  /\ nodesRef # Null
  /\ \E t \in timers, rc \in Rand, ri \in Rand : Tick(t, rc, ri)

\* The engine is playing on a graph at an audible cached level.
PlayingAudible ==
  /\ isPlaying
  /\ nodesRef # Null
  /\ currentSceneRef \in SceneIndex
  /\ masterLevelRef >= AudibleThreshold

FirstTickPending == \E t \in timers : t.by = "startAudio"

\* C22: while the timer set by a start() is pending, and in the step that sets
\* it, no chime strike is invoked and no cluster is dispatched, and that timer
\* is due between 1.5 s and 3.5 s after the start().
C22_NoStrikeBeforeFirstTick ==
  /\ [][FirstTickPending' =>
          /\ strikeCount' = strikeCount
          /\ Len(strikeTimers') <= Len(strikeTimers)]_vars
  /\ [](\A t \in timers :
          t.by = "startAudio" =>
            /\ t.delay >= StartDelayMinMs
            /\ t.delay <= StartDelayMinMs + StartDelaySpanMs)

\* C23: every strike has a frequency > 0 taken from the pitch set of a scene,
\* that scene's decay > 0, and a gain that is that scene's chime gain times a
\* master level of at least 0.05 and at most 1, hence > 0.
C23_StrikePreconditions ==
  lastStrike # NoStrike =>
    \E s \in SceneIndex :
      LET config == At(CHIME_CONFIGS, s)
      IN /\ \E i \in DOMAIN config.pitches : lastStrike.freq = config.pitches[i]
         /\ lastStrike.freq > 0
         /\ lastStrike.decay = config.decay
         /\ lastStrike.decay > 0
         /\ lastStrike.gain % config.gain = 0
         /\ lastStrike.gain \div config.gain >= AudibleThreshold
         /\ lastStrike.gain \div config.gain <= LevelScale
         /\ lastStrike.gain > 0

\* C23 witness: a pitch of scene II (880 Hz) struck at full level while the
\* cached level has dropped below the threshold since the tick.
C23_Witness ==
  /\ lastStrike # NoStrike
  /\ lastStrike.freq = 8800
  /\ lastStrike.gain = At(CHIME_CONFIGS, 1).gain * LevelScale
  /\ masterLevelRef < AudibleThreshold

\* C24: every voice is struck with both stops scheduled, the overtone's at
\* decay * 0.6 + 0.1 s, strictly before the fundamental's at decay + 0.1 s,
\* and a stop() changes neither the voice nor the number of strikes.
C24_VoicesEndOnTheirOwn ==
  /\ [](lastStrike # NoStrike =>
          /\ lastStrike.osc2Stop = lastStrike.decay * 60 + 100
          /\ lastStrike.oscStop = lastStrike.decay * 100 + 100
          /\ lastStrike.osc2Stop < lastStrike.oscStop)
  /\ [][StopAudio => (lastStrike' = lastStrike /\ strikeCount' = strikeCount)]_vars

\* C24 witness: stopped with the voice of the latest strike on the live
\* context, a scene II voice: overtone stop at 1.18 s, fundamental at 1.9 s.
C24_Witness ==
  /\ Stopped
  /\ lastStrike # NoStrike
  /\ lastStrike.ctx = nodesRef.ctx
  /\ lastStrike.osc2Stop = 1180
  /\ lastStrike.oscStop = 1900

\* entry idx of a list of doubles, 0 where the list has no such entry
EntryOrZero(list, idx) == IF idx \in DOMAIN list THEN list[idx] ELSE Zero64

Disposed == nodesRef = Null /\ lastDispose # NoDispose

\* C26: after a dispose() and until a start() no scheduler timer is pending,
\* and no step strikes a chime or dispatches a cluster: a strike callback
\* that was pending at the dispose() runs without striking.
C26_SilentAfterDispose ==
  /\ [](Disposed => timers = {})
  /\ [][Disposed =>
          /\ strikeCount' = strikeCount
          /\ lastStrike' = lastStrike
          /\ Len(strikeTimers') <= Len(strikeTimers)]_vars
  /\ [][(Disposed /\ \E k \in DOMAIN strikeTimers, r \in Rand : StrikeCallback(k, r)) =>
          (strikeCount' = strikeCount /\ Len(strikeTimers') < Len(strikeTimers))]_vars

\* C26 witness: disposed in the middle of a cluster: one strike was invoked
\* and callbacks of the same cluster are still pending.
C26_Witness ==
  /\ Disposed
  /\ strikeCount > 0
  /\ strikeTimers # << >>
  /\ lastStrike.ctx = lastDispose.ctx

\* The rate and the depth of the three modulation oscillators: amplitude
\* swell (gustLfo), band sweep (gustFilterLfo), whistle drift (gustLfo2).
LfoParams ==
  {"gustLfo_frequency", "gustLfoGain_gain",
   "gustFilterLfo_frequency", "gustFilterLfoGain_gain",
   "gustLfo2_frequency", "gustLfo2Gain_gain"}

\* C27: every onProgress while playing on a graph leaves each of the six
\* modulation params with a pin and a 0.25 s ramp scheduled by that call.
C27_LfoRatesAndDepthsRamped ==
  [][(progress' # progress /\ isPlaying /\ nodesRef # Null) =>
       \A n \in LfoParams :
         /\ Len(nodesRef'.params[n].events) = 2
         /\ nodesRef'.params[n].events[1] = Pin
         /\ nodesRef'.params[n].events[2].op = "linearRampToValueAtTime"
         /\ nodesRef'.params[n].events[2].dur = WindRampMs]_vars

\* C28: a pending scheduler timer implies that the graph exists and that
\* isPlaying is true.
C28_TickOnlyWhilePlaying == timers # {} => (nodesRef # Null /\ isPlaying)

\* C28 witness: on the second graph, a successor timer set by a tick is
\* pending while playing, after the first graph was disposed of.
C28_Witness ==
  /\ \E t \in timers : t.by = "scheduleNextChime"
  /\ isPlaying
  /\ nodesRef # Null
  /\ nodesRef.ctx = 2
  /\ lastDispose # NoDispose

\* C29: where audio is available and a graph exists or can be built, a
\* toggleAudio() inverts the playing state it finds at the call: it leaves
\* the engine stopped when it was playing and playing when it was not.
C29_ToggleInverts ==
  [][(audioAvailable /\ \E r \in Rand : ToggleAudio(r)) => isPlaying' = ~isPlaying]_vars

\* The strike callback k runs in this step.
StrikeRuns(k) == \E r \in Rand : StrikeCallback(k, r)

\* C30: an onProgress leaves the pending strike callbacks as they are, and a
\* callback that strikes uses a pitch, the gain and the decay of the chime
\* config and the gain from the master level that its cluster's tick read,
\* whatever scene and level are cached when it runs.
C30_ClusterUsesTickValues ==
  /\ [][progress' # progress => strikeTimers' = strikeTimers]_vars
  /\ [][\A k \in DOMAIN strikeTimers :
          (StrikeRuns(k) /\ strikeCount' > strikeCount) =>
            /\ \E i \in DOMAIN strikeTimers[k].config.pitches :
                 lastStrike'.freq = strikeTimers[k].config.pitches[i]
            /\ lastStrike'.gain = strikeTimers[k].config.gain * strikeTimers[k].masterLevel
            /\ lastStrike'.decay = strikeTimers[k].config.decay]_vars
  /\ [](\A k \in DOMAIN strikeTimers :
          /\ strikeTimers[k].config = strikeTimers[1].config
          /\ strikeTimers[k].masterLevel = strikeTimers[1].masterLevel)

\* C30 witness: a scene II cluster at full level, one strike of it invoked
\* and another pending, after progress has moved back to the inaudible
\* pre-roll of scene I.
C30_Witness ==
  /\ strikeTimers # << >>
  /\ strikeTimers[1].config = At(CHIME_CONFIGS, 1)
  /\ strikeTimers[1].masterLevel = LevelScale
  /\ currentSceneRef = 0
  /\ masterLevelRef < AudibleThreshold
  /\ lastStrike # NoStrike
  /\ lastStrike.decay = At(CHIME_CONFIGS, 1).decay
  /\ lastStrike.gain = At(CHIME_CONFIGS, 1).gain * LevelScale

=============================================================================
